---- MODULE Spec2Model ----
(***************************************************************************)
(* Giga-Peach: the batch generation orchestrator of src/App.tsx (the App   *)
(* component's state and handlers) together with the image store it writes *)
(* through to.                                                             *)
(*                                                                         *)
(* Every React state setter is modelled with its functional updater        *)
(* applied to the latest state; one action is one event handler or one     *)
(* promise continuation of the single-threaded event loop.  Strings that   *)
(* the code inspects (prompts, descriptions) are sequences of characters;  *)
(* opaque strings (image references, urls, messages) are TLA+ strings.     *)
(***************************************************************************)
EXTENDS Integers, Sequences, FiniteSets, TLC

VARIABLES
    now,              \* the value Date.now() returns
    apiKey,           \* useState('')  : generation credential
    isKeyModalOpen,   \* useState(false)
    activeTab,        \* 'create' | 'gallery' | 'favorites'
    showConfig,       \* useState(false)
    params,           \* GenerationParams {aspectRatios, resolution, count}
    prompt,           \* working prompt
    selectedStyleId,  \* selected style preset id
    referenceImages,  \* reference-image staging area
    allPresets,       \* in-memory preset list
    tasks,            \* session task list
    gallery,          \* gallery cache
    lightboxState,    \* {isOpen, images, currentIndex}
    images,           \* the Store's image collection
    calls,            \* the dispatched units of work of handleGenerate, one
                      \* per created task: closure and position of the
                      \* promise chain generateSingleImage().then().catch()
    favs,             \* handleToggleFavorite invocations (closure, position)
    dels,             \* handleDeleteGallery invocations (closure, position)
    loads,            \* loadGallery reads in flight (counted up to MaxLoads)
    presetStore,      \* the Store's preset collection
    boot,             \* the initialization effect: position and closure, and
                      \* while it runs the preset collection and the saved
                      \* parameters the session started from
    styleModal,       \* the style dialog: isOpen, editingStyleId and the form
    styleOps,         \* handleSaveStyle and handleDeleteStyle invocations
                      \* (closure, position)
    rendered,         \* groupedTasks as the render modelled by Render computed it
    localStorage,     \* the keys gp_api_key and gp_params of localStorage
    unhandled,        \* the promises that rejected with no handler attached
    reads             \* the FileReader reads of reference images in flight

\* the preset registry: Store collection, initialization, dialog, operations
registry == <<presetStore, boot, styleModal, styleOps>>

vars == <<now, apiKey, isKeyModalOpen, activeTab, showConfig, params, prompt,
          selectedStyleId, referenceImages, allPresets, tasks, gallery,
          lightboxState, images, calls, favs, dels, loads, presetStore,
          boot,
          styleModal, styleOps, rendered, localStorage, unhandled,
          reads>>

----------------------------------------------------------------------------
(* Bounds of the model *)

MaxTime == 2
MaxCalls == 3
MaxStaged == 1
MaxLoads == 1
MaxFavs == 1

\* writes of favourite toggles in flight at once in SpecToggle
MaxPendingToggles == 2

\* FileReader reads of reference images in flight at once
MaxReads == 2

\* images of one file selection or of one paste event
MaxItems == 2

MaxRetryCalls == 2
MaxSubmits == 2
MaxDels == 1
MaxKeyCalls == 2
MaxRecorded == 1
MaxDeleteCalls == 2

\* style operations (handleSaveStyle, handleDeleteStyle) started
MaxStyleOps == 1

\* length of the task lists groupTasksByBatch is applied to
MaxGroupLen == 4

----------------------------------------------------------------------------
(* Values *)

\* an absent optional string / array (retryPrompt?, retryRefImages?,
\* StylePreset.referenceImages?)
Undefined == <<"undefined">>

\* an absent GenerationTask.data
NoData == [undefined |-> TRUE]

\* the result of Array.prototype.find when no preset matches
NoStyle == [undefined |-> TRUE]

\* an absent GenerationTask.error
NoError == "undefined"

Min(a, b) == IF a < b THEN a ELSE b

\* Array.prototype.map is written [i \in 1..Len(s) |-> ...] and
\* Array.prototype.filter SelectSeq(s, ...)

\* Array.prototype.reverse
Reverse(s) == [i \in 1..Len(s) |-> s[Len(s) + 1 - i]]

\* the least position of a set of positions of a list; 0 when there is none
\* (Array.prototype.find and findIndex take the first match)
First(positions) ==
    IF positions = {} THEN 0
    ELSE CHOOSE i \in positions : \A j \in positions : i <= j

\* String.prototype.trim on a sequence of characters
Whitespace == {" "}

RECURSIVE TrimStart(_)
TrimStart(s) ==
    IF s # <<>> /\ Head(s) \in Whitespace THEN TrimStart(Tail(s)) ELSE s

Trim(s) == Reverse(TrimStart(Reverse(TrimStart(s))))

\* the working prompts the user types, the text of the textarea
Prompts == {<<>>, <<" ">>, <<"a">>}

\* the presets in the preset list once the initialization effect has run: the
\* sentinel and one style with a description and reference images of its own
NonePreset ==
    [id |-> "none", name |-> "None", description |-> <<>>,
     referenceImages |-> Undefined]

NeonPreset ==
    [id |-> "neon", name |-> "Neon", description |-> <<"N">>,
     referenceImages |-> <<"p1">>]

\* DEFAULT_PRESETS (constants): the built-in presets, the sentinel among them
DefaultPresets == <<NonePreset, NeonPreset>>

\* an absent localStorage item
NoItem == [undefined |-> TRUE]

\* JSON.stringify(params): the text lists the members in their order
StringifyParams(p) ==
    <<"aspectRatios", p.aspectRatios, "resolution", p.resolution, "count", p.count>>

\* JSON.parse of such a text
ParseParams(text) ==
    [aspectRatios |-> text[2], resolution |-> text[4], count |-> text[6]]

\* the reference images a file picker can deliver
UserImages == {"r1"}

\* the values of GenerationParams the configuration panel can hold
ParamChoices ==
    {[aspectRatios |-> r, resolution |-> "2K", count |-> c] :
        r \in {<<"16:9">>, <<"1:1", "16:9">>}, c \in 1..2}

\* the message property of a rejection value ("" when it carries none)
Messages == {"", "quota"}

----------------------------------------------------------------------------
(* The Store (services/storage): a keyed collection of image records *)

\* saveImage: insert, or fully replace the record with that id
Upsert(coll, rec) ==
    IF \E i \in 1..Len(coll) : coll[i].id = rec.id
    THEN [i \in 1..Len(coll) |-> IF coll[i].id = rec.id THEN rec ELSE coll[i]]
    ELSE Append(coll, rec)

\* getGallery: every record of the collection
GetGallery(coll) == coll

\* deleteImage: remove the record with that id if present
DeleteImage(coll, id) == SelectSeq(coll, LAMBDA rec : rec.id # id)

\* savePreset, getAllPresets, deletePreset: the same contract on the preset
\* collection
SavePreset(coll, preset) ==
    IF \E i \in 1..Len(coll) : coll[i].id = preset.id
    THEN [i \in 1..Len(coll) |-> IF coll[i].id = preset.id THEN preset ELSE coll[i]]
    ELSE Append(coll, preset)

GetAllPresets(coll) == coll

DeletePreset(coll, id) == SelectSeq(coll, LAMBDA preset : preset.id # id)

----------------------------------------------------------------------------
(* Initial state: the component once its initialization effect has run,    *)
(* with an empty image store and with or without a saved credential        *)

Init ==
    /\ now = 1
    /\ apiKey \in {"", "key"}
    /\ isKeyModalOpen = FALSE
    /\ activeTab = "create"
    /\ showConfig = FALSE
    /\ params \in ParamChoices
    /\ prompt = <<"a">>
    /\ selectedStyleId = "none"
    /\ referenceImages = <<>>
    /\ allPresets = <<NonePreset, NeonPreset>>
    /\ tasks = <<>>
    /\ gallery = <<>>
    /\ lightboxState = [isOpen |-> FALSE, images |-> <<>>, currentIndex |-> 0]
    /\ images = <<>>
    /\ calls = <<>>
    /\ favs = <<>>
    /\ dels = <<>>
    /\ loads = 0
    /\ presetStore = DefaultPresets
    /\ boot = [stage |-> "done", currentPresets |-> <<>>, missing |-> <<>>,
               stored |-> <<>>, savedParams |-> NoItem]
    /\ styleModal = [isOpen |-> FALSE, editingStyleId |-> "", name |-> "",
                     description |-> <<>>, images |-> <<>>]
    /\ styleOps = <<>>
    /\ rendered = [groupedTasks |-> <<>>]
    /\ unhandled = {}
    /\ reads = <<>>
    /\ localStorage =
         [gp_api_key |-> IF apiKey = "" THEN NoItem ELSE [value |-> apiKey],
          gp_params |-> [value |-> StringifyParams(params)]]

----------------------------------------------------------------------------
(* handleGenerate *)

\* `${batchId}-${ratio}-${i}`
TaskId(batchId, ratio, i) == batchId \o "-" \o ratio \o "-" \o ToString(i)

\* allPresets.find(s => s.id === selectedStyleId)
FindStyle(presets, styleId) ==
    LET k == First({i \in 1..Len(presets) : presets[i].id = styleId})
    IN  IF k = 0 THEN NoStyle ELSE presets[k]

\* !retryPrompt : undefined and the empty string are falsy
IsFalsyString(s) == s = Undefined \/ s = <<>>

\* the prefix applied without the test for the sentinel preset
FinalPromptNoSentinelTest(retryPrompt, effectivePrompt, style) ==
    IF IsFalsyString(retryPrompt) /\ style # NoStyle
    THEN style.description \o <<".", " ">> \o effectivePrompt
    ELSE effectivePrompt

\* lines 362-365
FinalPrompt(retryPrompt, effectivePrompt, style) ==
    IF IsFalsyString(retryPrompt) /\ style # NoStyle /\ style.id # "none"
    THEN style.description \o <<".", " ">> \o effectivePrompt
    ELSE effectivePrompt

\* the preset's images put in front of the user's
FinalRefImagesPresetFirst(effectiveRefImages, style) ==
    (IF style = NoStyle \/ style.referenceImages = Undefined
     THEN <<>> ELSE style.referenceImages) \o effectiveRefImages

\* line 367: [...effectiveRefImages, ...(style?.referenceImages || [])]
FinalRefImages(effectiveRefImages, style) ==
    effectiveRefImages \o
        (IF style = NoStyle \/ style.referenceImages = Undefined
         THEN <<>> ELSE style.referenceImages)

\* the loops nested the other way: index-major, the ratios within each index
NewTasksIndexMajor(batchId, finalPrompt, first) ==
    [n \in 1..(Len(params.aspectRatios) * params.count) |->
        LET ratio == params.aspectRatios[((n - 1) % Len(params.aspectRatios)) + 1]
            i == (n - 1) \div Len(params.aspectRatios)
        IN  [id |-> TaskId(batchId, ratio, i),
             batchId |-> batchId,
             status |-> "pending",
             aspectRatio |-> ratio,
             prompt |-> finalPrompt,
             placeholder |-> TRUE,
             data |-> NoData,
             error |-> NoError,
             call |-> first + n]]

\* lines 371-382: the tasks of the batch, ratio-major, index ascending; call
\* is the position in calls of the unit of work dispatched for the task
NewTasks(batchId, finalPrompt, first) ==
    [n \in 1..(Len(params.aspectRatios) * params.count) |->
        LET ratio == params.aspectRatios[((n - 1) \div params.count) + 1]
            i == (n - 1) % params.count
        IN  [id |-> TaskId(batchId, ratio, i),
             batchId |-> batchId,
             status |-> "pending",
             aspectRatio |-> ratio,
             prompt |-> finalPrompt,
             placeholder |-> TRUE,
             data |-> NoData,
             error |-> NoError,
             call |-> first + n]]

\* line 387: prev.map(t => t.id === task.id ? {...t, status: 'generating'} : t)
MarkGenerating(prev, id) ==
    [n \in 1..Len(prev) |->
        IF prev[n].id = id THEN [prev[n] EXCEPT !.status = "generating"] ELSE prev[n]]

\* lines 386-387 for the first new task only, the others waiting for it
MarkFirstGenerating(prev, newTasks) ==
    IF newTasks = <<>> THEN prev ELSE MarkGenerating(prev, Head(newTasks).id)

\* lines 386-387 for every new task in turn
RECURSIVE MarkAllGenerating(_, _)
MarkAllGenerating(prev, newTasks) ==
    IF newTasks = <<>> THEN prev
    ELSE MarkAllGenerating(MarkGenerating(prev, Head(newTasks).id), Tail(newTasks))

\* lines 389-396: the call issued for one task and what its continuations close over
Dispatch(task, batchId, finalPrompt, finalRefImages, retryPrompt) ==
    [task |-> [id |-> task.id, aspectRatio |-> task.aspectRatio],
     batchId |-> batchId,
     prompt |-> finalPrompt,
     referenceImages |-> finalRefImages,
     aspectRatio |-> task.aspectRatio,
     resolution |-> params.resolution,
     styleId |-> selectedStyleId,
     retryPrompt |-> retryPrompt,
     stage |-> "generate",
     generatedData |-> NoData]

\* the credential test skipped
HasCredentialAlways(key) == TRUE

\* line 347: !apiKey fails for a non-empty key
HasCredential(key) == key # ""

HandleGenerate(retryPrompt, retryRefImages) ==
    IF ~HasCredential(apiKey) THEN
        /\ isKeyModalOpen' = TRUE
        /\ UNCHANGED <<reads, unhandled, registry, rendered, localStorage, dels, now, apiKey, activeTab, showConfig, params, prompt,
                       selectedStyleId, referenceImages, allPresets, tasks,
                       gallery, lightboxState, images, calls, favs, loads>>
    ELSE
        LET effectivePrompt == IF retryPrompt # Undefined THEN retryPrompt ELSE prompt
            effectiveRefImages ==
                IF retryRefImages # Undefined THEN retryRefImages ELSE referenceImages
            style == FindStyle(allPresets, selectedStyleId)
            finalPrompt == FinalPrompt(retryPrompt, effectivePrompt, style)
            finalRefImages == FinalRefImages(effectiveRefImages, style)
            batchId == ToString(now)
            newTasks == NewTasks(batchId, finalPrompt, Len(calls))
        IN  /\ ~(Trim(effectivePrompt) = <<>> /\ Len(effectiveRefImages) = 0)
            /\ activeTab' = "create"
            /\ showConfig' = FALSE
            /\ tasks' = MarkAllGenerating(tasks \o newTasks, newTasks)
            /\ calls' = calls \o
                 [n \in 1..Len(newTasks) |->
                     Dispatch(newTasks[n], batchId, finalPrompt, finalRefImages,
                              retryPrompt)]
            /\ IF IsFalsyString(retryPrompt)
               THEN prompt' = <<>> /\ referenceImages' = <<>>
               ELSE UNCHANGED <<prompt, referenceImages>>
            /\ UNCHANGED <<reads, unhandled, registry, rendered, localStorage, dels, now, apiKey, isKeyModalOpen, params, selectedStyleId,
                           allPresets, gallery, lightboxState, images, favs, loads>>

\* the Run button and the Enter key: handleGenerate()
SubmitBatch == HandleGenerate(Undefined, Undefined)

----------------------------------------------------------------------------
(* The promise chain of one dispatched task, lines 389-426 *)

\* stage: "generate" (awaiting generateSingleImage), "save" (awaiting
\* saveImage), then one of "saved", "generateRejected", "saveRejected"
Settled(c) == c.stage \in {"saved", "generateRejected", "saveRejected"}

SetCall(k, stage, data) ==
    [calls EXCEPT ![k] = [@ EXCEPT !.stage = stage, !.generatedData = data]]

\* err.message, whatever it is
ErrorMessageNoFallback(message) == message

\* err.message || "Generation failed"
ErrorMessage(message) == IF message = "" THEN "Generation failed" ELSE message

\* lines 412-416, with the entry created when the list has none for the id
MarkSuccessOrRestore(prev, id, generatedData) ==
    IF \E n \in 1..Len(prev) : prev[n].id = id
    THEN [n \in 1..Len(prev) |->
             IF prev[n].id = id
             THEN [prev[n] EXCEPT !.status = "success", !.data = generatedData]
             ELSE prev[n]]
    ELSE Append(prev, [id |-> id, batchId |-> generatedData.batchId,
                       status |-> "success",
                       aspectRatio |-> generatedData.aspectRatio,
                       prompt |-> generatedData.prompt, placeholder |-> TRUE,
                       data |-> generatedData, error |-> NoError, call |-> 0])

\* lines 412-416
MarkSuccess(prev, id, generatedData) ==
    [n \in 1..Len(prev) |->
        IF prev[n].id = id
        THEN [prev[n] EXCEPT !.status = "success", !.data = generatedData]
        ELSE prev[n]]

\* lines 421-425 with the rejection dropped
MarkErrorDropped(prev, id, message) == prev

\* lines 421-425
MarkError(prev, id, message) ==
    [n \in 1..Len(prev) |->
        IF prev[n].id = id
        THEN [prev[n] EXCEPT !.status = "error", !.error = ErrorMessage(message)]
        ELSE prev[n]]

\* lines 398-408
GeneratedData(c, url) ==
    [id |-> c.task.id,
     batchId |-> c.batchId,
     url |-> url,
     prompt |-> c.prompt,
     aspectRatio |-> c.task.aspectRatio,
     resolution |-> c.resolution,
     timestamp |-> now,
     styleId |-> c.styleId,
     referenceImages |-> c.referenceImages,
     isFavorite |-> "undefined"]

\* the task marked before saveImage is awaited
GenerateResolvedMarksFirst(k) ==
    /\ calls[k].stage = "generate"
    /\ calls' = SetCall(k, "save", GeneratedData(calls[k], "url"))
    /\ tasks' = MarkSuccess(tasks, calls[k].task.id, GeneratedData(calls[k], "url"))
    /\ UNCHANGED <<reads, unhandled, registry, rendered, localStorage, dels, now, apiKey,
                   isKeyModalOpen, activeTab, showConfig, params, prompt,
                   selectedStyleId, referenceImages, allPresets, gallery,
                   lightboxState, images, favs, loads>>

\* generateSingleImage resolves with a url: the record is built and saveImage
\* is issued (lines 397-410)
GenerateResolved(k) ==
    /\ calls[k].stage = "generate"
    /\ calls' = SetCall(k, "save", GeneratedData(calls[k], "url"))
    /\ UNCHANGED <<reads, unhandled, registry, rendered, localStorage, dels, now, apiKey, isKeyModalOpen, activeTab, showConfig, params,
                   prompt, selectedStyleId, referenceImages, allPresets, tasks,
                   gallery, lightboxState, images, favs, loads>>

\* generateSingleImage rejects (lines 420-426)
GenerateRejected(k, message) ==
    /\ calls[k].stage = "generate"
    /\ tasks' = MarkError(tasks, calls[k].task.id, message)
    /\ calls' = SetCall(k, "generateRejected", NoData)
    /\ UNCHANGED <<reads, unhandled, registry, rendered, localStorage, dels, now, apiKey, isKeyModalOpen, activeTab, showConfig, params,
                   prompt, selectedStyleId, referenceImages, allPresets,
                   gallery, lightboxState, images, favs, loads>>

\* the write skipped for a task that is no longer listed
SaveResolvedIfListed(k) ==
    /\ calls[k].stage = "save"
    /\ images' = IF \E n \in 1..Len(tasks) : tasks[n].id = calls[k].task.id
                 THEN Upsert(images, calls[k].generatedData)
                 ELSE images
    /\ tasks' = MarkSuccess(tasks, calls[k].task.id, calls[k].generatedData)
    /\ loads' = Min(loads + 1, MaxLoads)
    /\ calls' = SetCall(k, "saved", calls[k].generatedData)
    /\ UNCHANGED <<reads, unhandled, registry, rendered, localStorage, dels, now, apiKey,
                   isKeyModalOpen, activeTab, showConfig, params, prompt,
                   selectedStyleId, referenceImages, allPresets, gallery,
                   lightboxState, favs>>

\* saveImage resolves: the record is in the Store, the task is marked and a
\* gallery reload is started (lines 410-418)
SaveResolved(k) ==
    /\ calls[k].stage = "save"
    /\ images' = Upsert(images, calls[k].generatedData)
    /\ tasks' = MarkSuccess(tasks, calls[k].task.id, calls[k].generatedData)
    /\ loads' = Min(loads + 1, MaxLoads)
    /\ calls' = SetCall(k, "saved", calls[k].generatedData)
    /\ UNCHANGED <<reads, unhandled, registry, rendered, localStorage, dels, now, apiKey, isKeyModalOpen, activeTab, showConfig, params,
                   prompt, selectedStyleId, referenceImages, allPresets,
                   gallery, lightboxState, favs>>

\* saveImage rejects: the rejection of the async then-callback reaches the
\* catch (lines 410, 420-426)
SaveRejected(k, message) ==
    /\ calls[k].stage = "save"
    /\ tasks' = MarkError(tasks, calls[k].task.id, message)
    /\ calls' = SetCall(k, "saveRejected", calls[k].generatedData)
    /\ UNCHANGED <<reads, unhandled, registry, rendered, localStorage, dels, now, apiKey, isKeyModalOpen, activeTab, showConfig, params,
                   prompt, selectedStyleId, referenceImages, allPresets,
                   gallery, lightboxState, images, favs, loads>>

\* loadGallery: getGallery rejects, the await throws and the promise of
\* loadGallery rejects; its callers neither await it nor attach a catch
\* (lines 134, 418, 449 and the tab buttons)
LoadGalleryRejected ==
    /\ loads > 0
    /\ loads' = loads - 1
    /\ unhandled' = unhandled \cup {"loadGallery"}
    /\ UNCHANGED <<reads, registry, rendered, localStorage, dels, now, apiKey,
                   isKeyModalOpen, activeTab, showConfig, params, prompt,
                   selectedStyleId, referenceImages, allPresets, tasks,
                   gallery, lightboxState, images, calls, favs>>

\* loadGallery: the read of getGallery is delivered and replaces the cache
LoadGallery ==
    /\ loads > 0
    /\ gallery' = GetGallery(images)
    /\ loads' = loads - 1
    /\ UNCHANGED <<reads, unhandled, registry, rendered, localStorage, dels, now, apiKey, isKeyModalOpen, activeTab, showConfig, params,
                   prompt, selectedStyleId, referenceImages, allPresets, tasks,
                   lightboxState, images, calls, favs>>

----------------------------------------------------------------------------
(* The other handlers *)

\* the deletion carried through to the Store
HandleDeleteTaskAndRecord(id) ==
    /\ tasks' = SelectSeq(tasks, LAMBDA t : t.id # id)
    /\ images' = SelectSeq(images, LAMBDA rec : rec.id # id)
    /\ UNCHANGED <<reads, unhandled, registry, rendered, localStorage, dels, now, apiKey, isKeyModalOpen, activeTab, showConfig, params,
                   prompt, selectedStyleId, referenceImages, allPresets,
                   gallery, lightboxState, calls, favs, loads>>

\* handleDeleteTask
HandleDeleteTask(id) ==
    /\ tasks' = SelectSeq(tasks, LAMBDA t : t.id # id)
    /\ UNCHANGED <<reads, unhandled, registry, rendered, localStorage, dels, now, apiKey, isKeyModalOpen, activeTab, showConfig, params,
                   prompt, selectedStyleId, referenceImages, allPresets,
                   gallery, lightboxState, images, calls, favs, loads>>

\* ImageCard shows the image, and with it the view, favourite and delete
\* buttons,
\* for a task that is neither pending, generating, error nor without data
ShowsImage(t) ==
    /\ t.status \notin {"pending", "generating"}
    /\ ~(t.status = "error" \/ t.data = NoData)

\* the delete button of a task card, which ImageCard renders only over a
\* shown image
DeleteTask(i) ==
    /\ ShowsImage(tasks[i])
    /\ HandleDeleteTask(tasks[i].id)

\* task.batchId || 'legacy'
BatchKey(t) == IF t.batchId = "" THEN "legacy" ELSE t.batchId

\* groupTasksByBatch: the keys in first-seen order (order) ...
RECURSIVE BatchOrder(_)
BatchOrder(ts) ==
    IF ts = <<>> THEN <<>>
    ELSE LET init == BatchOrder(SubSeq(ts, 1, Len(ts) - 1))
             bid == BatchKey(ts[Len(ts)])
         IN  IF \E i \in 1..Len(init) : init[i] = bid THEN init ELSE Append(init, bid)

\* groupTasksByBatch with order.unshift(bid): the newest batch first
GroupTasksNewestFirst(ts) ==
    [g \in 1..Len(BatchOrder(ts)) |->
        SelectSeq(ts, LAMBDA t : BatchKey(t) = Reverse(BatchOrder(ts))[g])]

\* groupTasksByBatch with groups[bid].unshift(task): the newest task first
GroupTasksReversed(ts) ==
    [g \in 1..Len(BatchOrder(ts)) |->
        Reverse(SelectSeq(ts, LAMBDA t : BatchKey(t) = BatchOrder(ts)[g]))]

\* ... and for each key the tasks carrying it, in list order (groups[bid])
GroupTasksByBatch(ts) ==
    [g \in 1..Len(BatchOrder(ts)) |->
        SelectSeq(ts, LAMBDA t : BatchKey(t) = BatchOrder(ts)[g])]

\* const groupedTasks = groupTasksByBatch(tasks), line 548 of the render
Render ==
    /\ rendered' = [groupedTasks |-> GroupTasksByBatch(tasks)]
    /\ UNCHANGED <<reads, unhandled, registry, localStorage, now, apiKey, isKeyModalOpen,
                   activeTab, showConfig, params, prompt, selectedStyleId,
                   referenceImages, allPresets, tasks, gallery, lightboxState,
                   images, calls, favs, dels, loads>>

\* batchTasks.find(t => t.data)?.data
FirstData(batchTasks) ==
    LET k == First({i \in 1..Len(batchTasks) : batchTasks[i].data # NoData})
    IN  IF k = 0 THEN NoData ELSE batchTasks[k].data

\* handleRegenerateBatch, called with a group of the rendered task list
HandleRegenerateBatch(batchTasks) ==
    /\ Len(batchTasks) # 0
    /\ LET firstPrompt == batchTasks[1].prompt
           firstData == FirstData(batchTasks)
       IN  IF firstData # NoData
           THEN HandleGenerate(firstData.prompt, firstData.referenceImages)
           ELSE HandleGenerate(firstPrompt, Undefined)

\* the clock advances
Tick ==
    /\ now < MaxTime
    /\ now' = now + 1
    /\ UNCHANGED <<reads, unhandled, registry, rendered, localStorage, dels, apiKey, isKeyModalOpen,
                   activeTab, showConfig, params, prompt, selectedStyleId, referenceImages, allPresets, tasks, gallery,
                   lightboxState, images, calls, favs, loads>>

\* the textarea's onChange
SetPrompt(text) ==
    /\ prompt' = text
    /\ UNCHANGED <<reads, unhandled, registry, rendered, localStorage, dels, now, apiKey, isKeyModalOpen, activeTab, showConfig, params,
                   selectedStyleId, referenceImages, allPresets, tasks, gallery,
                   lightboxState, images, calls, favs, loads>>

\* the style buttons, one per preset of the list: setSelectedStyleId(p.id)
SetSelectedStyleId(id) ==
    /\ \E i \in 1..Len(allPresets) : allPresets[i].id = id
    /\ selectedStyleId' = id
    /\ UNCHANGED <<reads, unhandled, registry, rendered, localStorage, dels, now, apiKey, isKeyModalOpen, activeTab, showConfig, params,
                   prompt, referenceImages, allPresets, tasks, gallery,
                   lightboxState, images, calls, favs, loads>>

\* handleFileChange(e, false), one file read: the updater refuses a 7th image
MaxReferenceImages == 6

AddReferenceImage(result) ==
    /\ Len(referenceImages) < MaxStaged
    /\ referenceImages' =
         IF Len(referenceImages) >= MaxReferenceImages THEN referenceImages
         ELSE Append(referenceImages, result)
    /\ UNCHANGED <<reads, unhandled, registry, rendered, localStorage, dels, now, apiKey, isKeyModalOpen, activeTab, showConfig, params,
                   prompt, selectedStyleId, allPresets, tasks, gallery,
                   lightboxState, images, calls, favs, loads>>

\* the tab buttons; the gallery and collection tabs also start loadGallery
SetActiveTab(tab) ==
    /\ activeTab' = tab
    /\ loads' = IF tab = "create" THEN loads ELSE Min(loads + 1, MaxLoads)
    /\ UNCHANGED <<reads, unhandled, registry, rendered, localStorage, dels, now, apiKey, isKeyModalOpen, showConfig, params, prompt,
                   selectedStyleId, referenceImages, allPresets, tasks, gallery,
                   lightboxState, images, calls, favs>>

----------------------------------------------------------------------------
(* Lightbox and favourites *)

\* gallery.filter(img => img.isFavorite)
FavoriteImages == SelectSeq(gallery, LAMBDA img : img.isFavorite = "true")

\* the list a card of the gallery or collection tab is rendered from
ShownGallery == IF activeTab = "favorites" THEN FavoriteImages ELSE gallery

\* openLightbox without sourceList: the list is chosen by the active tab
DefaultList ==
    IF activeTab = "gallery" THEN gallery
    ELSE IF activeTab = "favorites" THEN FavoriteImages
    ELSE LET done == SelectSeq(tasks, LAMBDA t : t.status = "success" /\ t.data # NoData)
         IN  Reverse([n \in 1..Len(done) |-> done[n].data])

OpenLightbox(image, list) ==
    LET index == First({i \in 1..Len(list) : list[i].id = image.id})
    IN  /\ lightboxState' =
             [isOpen |-> TRUE, images |-> list,
              currentIndex |-> IF index # 0 THEN index - 1 ELSE 0]
        /\ UNCHANGED <<reads, unhandled, registry, rendered, localStorage, dels, now, apiKey, isKeyModalOpen, activeTab, showConfig, params,
                       prompt, selectedStyleId, referenceImages, allPresets,
                       tasks, gallery, images, calls, favs, loads>>

\* the open lightbox covers the page: the cards take clicks only while it is
\* not shown (isOpen and a non-empty list)
LightboxShown == lightboxState.isOpen /\ Len(lightboxState.images) > 0

\* onView of a task card of the create tab: openLightbox(img)
ViewTask(i) ==
    /\ activeTab = "create"
    /\ ~LightboxShown
    /\ ShowsImage(tasks[i])
    /\ OpenLightbox(tasks[i].data, DefaultList)

\* onView of a gallery card: openLightbox(img, favoriteImages or gallery)
ViewGalleryImage(i) ==
    /\ activeTab \in {"gallery", "favorites"}
    /\ ~LightboxShown
    /\ i \in 1..Len(ShownGallery)
    /\ OpenLightbox(ShownGallery[i], ShownGallery)

\* the close button, the backdrop, the Escape key
CloseLightbox ==
    /\ LightboxShown
    /\ lightboxState' = [lightboxState EXCEPT !.isOpen = FALSE]
    /\ UNCHANGED <<reads, unhandled, registry, rendered, localStorage, dels, now, apiKey, isKeyModalOpen, activeTab, showConfig, params,
                   prompt, selectedStyleId, referenceImages, allPresets,
                   tasks, gallery, images, calls, favs, loads>>

HandleNextImage ==
    /\ LightboxShown
    /\ lightboxState' =
         [lightboxState EXCEPT
            !.currentIndex = (@ + 1) % Len(lightboxState.images)]
    /\ UNCHANGED <<reads, unhandled, registry, rendered, localStorage, dels, now, apiKey, isKeyModalOpen, activeTab, showConfig, params,
                   prompt, selectedStyleId, referenceImages, allPresets,
                   tasks, gallery, images, calls, favs, loads>>

\* !image.isFavorite, the flag being absent from a freshly generated record
NotFavorite(isFavorite) == IF isFavorite = "true" THEN "false" ELSE "true"

\* handleToggleFavorite up to its await: the updated copy is built and
\* saveImage is issued (lines 326-330); the continuation closes over image,
\* updatedImage and the lightboxState of the render the handler belongs to
OnToggleFavorite(image) ==
    /\ favs' = Append(favs,
         [image |-> image,
          updatedImage |-> [image EXCEPT !.isFavorite = NotFavorite(image.isFavorite)],
          lightboxState |-> lightboxState])
    /\ UNCHANGED <<reads, unhandled, registry, rendered, localStorage, dels, now, apiKey, isKeyModalOpen, activeTab, showConfig, params,
                   prompt, selectedStyleId, referenceImages, allPresets,
                   tasks, gallery, lightboxState, images, calls, loads>>

\* handleToggleFavorite with at most MaxFavs writes of toggles in flight
HandleToggleFavorite(image) ==
    /\ Len(favs) < MaxFavs
    /\ OnToggleFavorite(image)

\* the heart of a task card
ToggleTaskFavorite(i) ==
    /\ activeTab = "create"
    /\ ~LightboxShown
    /\ ShowsImage(tasks[i])
    /\ HandleToggleFavorite(tasks[i].data)

\* the heart of a task card, with up to MaxPendingToggles writes in flight:
\* the card is rendered anew only by the update that follows the write, so a
\* click made while a write is pending hands the handler the copy the card
\* handed before (ImageCard.tsx, line 82)
ClickTaskHeart(i) ==
    /\ activeTab = "create"
    /\ ~LightboxShown
    /\ ShowsImage(tasks[i])
    /\ Len(favs) < MaxPendingToggles
    /\ OnToggleFavorite(tasks[i].data)

\* the heart of a gallery card
ToggleGalleryFavorite(i) ==
    /\ activeTab \in {"gallery", "favorites"}
    /\ ~LightboxShown
    /\ i \in 1..Len(ShownGallery)
    /\ HandleToggleFavorite(ShownGallery[i])

\* the heart of the lightbox
ToggleLightboxFavorite ==
    /\ LightboxShown
    /\ HandleToggleFavorite(lightboxState.images[lightboxState.currentIndex + 1])

RemoveAt(s, k) == SubSeq(s, 1, k - 1) \o SubSeq(s, k + 1, Len(s))

\* lines 333, 340
ReplaceImage(list, id, updatedImage) ==
    [n \in 1..Len(list) |-> IF list[n].id = id THEN updatedImage ELSE list[n]]

\* line 334
ReplaceTaskData(prev, id, updatedImage) ==
    [n \in 1..Len(prev) |->
        IF prev[n].data # NoData /\ prev[n].data.id = id
        THEN [prev[n] EXCEPT !.data = updatedImage]
        ELSE prev[n]]

\* line 337: the handler reads the lightboxState of its own render
LightboxOpenSeenBy(f) == f.lightboxState.isOpen

\* saveImage of a toggle resolves: the record is in the Store and the copies
\* are replaced (lines 330-342)
FavoriteSaved(k) ==
    LET f == favs[k]
    IN  /\ images' = Upsert(images, f.updatedImage)
        /\ gallery' = ReplaceImage(gallery, f.image.id, f.updatedImage)
        /\ tasks' = ReplaceTaskData(tasks, f.image.id, f.updatedImage)
        /\ lightboxState' =
             IF LightboxOpenSeenBy(f)
             THEN [lightboxState EXCEPT
                     !.images = ReplaceImage(@, f.image.id, f.updatedImage)]
             ELSE lightboxState
        /\ favs' = RemoveAt(favs, k)
        /\ UNCHANGED <<reads, unhandled, registry, rendered, localStorage, dels, now, apiKey, isKeyModalOpen, activeTab, showConfig, params,
                       prompt, selectedStyleId, referenceImages, allPresets,
                       calls, loads>>

----------------------------------------------------------------------------
(* The credential dialog (the custom base url, which no handler modelled   *)
(* here reads, is left out)                                                *)

\* the values of the key input once trimmed
Keys == {"", "key"}

\* the header's key button: setKeyModalOpen(true)
OpenKeyModal ==
    /\ isKeyModalOpen' = TRUE
    /\ UNCHANGED <<reads, unhandled, registry, rendered, localStorage, dels, now, apiKey, activeTab, showConfig, params, prompt,
                   selectedStyleId, referenceImages, allPresets, tasks, gallery,
                   lightboxState, images, calls, favs, loads>>

\* the dialog's onClose: it closes only when a key is set
CloseKeyModal ==
    /\ isKeyModalOpen
    /\ apiKey # ""
    /\ isKeyModalOpen' = FALSE
    /\ UNCHANGED <<reads, unhandled, registry, rendered, localStorage, dels, now, apiKey, activeTab, showConfig, params, prompt,
                   selectedStyleId, referenceImages, allPresets, tasks, gallery,
                   lightboxState, images, calls, favs, loads>>

\* handleSaveKey with the trimmed input key: nothing happens for an empty one
HandleSaveKey(key) ==
    /\ isKeyModalOpen
    /\ key # ""
    /\ apiKey' = key
    /\ localStorage' = [localStorage EXCEPT !.gp_api_key = [value |-> key]]
    /\ isKeyModalOpen' = FALSE
    /\ UNCHANGED <<reads, unhandled, registry, rendered, dels, now, activeTab, showConfig, params, prompt,
                   selectedStyleId, referenceImages, allPresets, tasks, gallery,
                   lightboxState, images, calls, favs, loads>>

\* handleClearKey; its button is rendered in the dialog while a key is set
HandleClearKey ==
    /\ isKeyModalOpen
    /\ apiKey # ""
    /\ apiKey' = ""
    /\ localStorage' = [localStorage EXCEPT !.gp_api_key = NoItem]
    /\ isKeyModalOpen' = FALSE
    /\ UNCHANGED <<reads, unhandled, registry, rendered, dels, now, activeTab, showConfig, params, prompt,
                   selectedStyleId, referenceImages, allPresets, tasks, gallery,
                   lightboxState, images, calls, favs, loads>>

----------------------------------------------------------------------------
(* handleDeleteGallery *)

\* handleDeleteGallery up to its await: deleteImage(id) is issued; the
\* continuation closes over id and the lightboxState of the handler's render
HandleDeleteGallery(id) ==
    /\ Len(dels) < MaxDels
    /\ dels' = Append(dels, [id |-> id, lightboxState |-> lightboxState,
                             stage |-> "delete"])
    /\ UNCHANGED <<reads, unhandled, registry, rendered, localStorage, now, apiKey, isKeyModalOpen, activeTab, showConfig, params,
                   prompt, selectedStyleId, referenceImages, allPresets,
                   tasks, gallery, lightboxState, images, calls, favs, loads>>

\* the delete button of a gallery card
DeleteGalleryImage(i) ==
    /\ activeTab \in {"gallery", "favorites"}
    /\ ~LightboxShown
    /\ i \in 1..Len(ShownGallery)
    /\ HandleDeleteGallery(ShownGallery[i].id)

\* lightboxState.isOpen && lightboxState.images[currentIndex]?.id === id, read
\* from the handler's own render
DeletedShownIn(ls, id) ==
    /\ ls.isOpen
    /\ ls.currentIndex + 1 \in 1..Len(ls.images)
    /\ ls.images[ls.currentIndex + 1].id = id

\* deleteImage resolves: the record is gone, a gallery reload is started and
\* the lightbox is closed if the handler saw it showing the image
DeleteResolved(k) ==
    /\ dels[k].stage = "delete"
    /\ images' = DeleteImage(images, dels[k].id)
    /\ loads' = Min(loads + 1, MaxLoads)
    /\ lightboxState' =
         IF DeletedShownIn(dels[k].lightboxState, dels[k].id)
         THEN [lightboxState EXCEPT !.isOpen = FALSE]
         ELSE lightboxState
    /\ dels' = [dels EXCEPT ![k] = [@ EXCEPT !.stage = "done"]]
    /\ UNCHANGED <<reads, unhandled, registry, rendered, localStorage, now, apiKey, isKeyModalOpen, activeTab, showConfig, params,
                   prompt, selectedStyleId, referenceImages, allPresets,
                   tasks, gallery, calls, favs>>

(* The preset registry: the initialization effect (lines 105-143) and the *)
(* style dialog (lines 276-323)                                           *)

\* the state no registry operation writes
orchestrator == <<apiKey, isKeyModalOpen, activeTab, showConfig, prompt,
                  referenceImages, tasks, gallery, lightboxState, images,
                  calls, favs, dels>>

\* allPresets.sort(...) of the render: the sentinel first, the others in
\* their order (the sort is in place on the state's array)
SortPresets(list) ==
    SelectSeq(list, LAMBDA p : p.id = "none") \o
    SelectSeq(list, LAMBDA p : p.id # "none")

\* DEFAULT_PRESETS.filter(p => !existingIds.has(p.id)), blind variant
MissingDefaultsAll(currentPresets) == DefaultPresets

\* DEFAULT_PRESETS.filter(p => !existingIds.has(p.id))
MissingDefaults(currentPresets) ==
    SelectSeq(DefaultPresets,
              LAMBDA p : \A i \in 1..Len(currentPresets) : currentPresets[i].id # p.id)

\* the effects of the first commit, in their order: the initialization
\* effect reads the saved credential and calls initDB (lines 105-112), the
\* params effect writes the initial params (lines 145-147)
Mount ==
    /\ boot.stage = "mount"
    /\ apiKey' = IF localStorage.gp_api_key = NoItem THEN apiKey
                 ELSE localStorage.gp_api_key.value
    /\ localStorage' = [localStorage EXCEPT !.gp_params =
                            [value |-> StringifyParams(params)]]
    /\ boot' = [boot EXCEPT !.stage = "initDB"]
    /\ UNCHANGED <<reads, unhandled, isKeyModalOpen, activeTab, showConfig, prompt,
                   referenceImages, tasks, gallery, lightboxState, images,
                   calls, favs, dels, now, params, selectedStyleId, allPresets,
                   loads, presetStore, styleModal, styleOps, rendered>>

\* initDB() resolves; the sentinel's definition is found and savePreset is
\* called with it
BootOpened ==
    /\ boot.stage = "initDB"
    /\ boot' = [boot EXCEPT !.stage =
                   IF \E i \in 1..Len(DefaultPresets) : DefaultPresets[i].id = "none"
                   THEN "savePreset" ELSE "getAllPresets"]
    /\ UNCHANGED <<reads, unhandled, orchestrator, now, params, selectedStyleId, allPresets,
                   loads, presetStore, styleModal, styleOps, rendered,
                   localStorage>>

\* await savePreset(defaultPresetDef) completes; getAllPresets is called
BootSentinelSaved ==
    /\ boot.stage = "savePreset"
    /\ presetStore' = SavePreset(presetStore,
                                 DefaultPresets[First({i \in 1..Len(DefaultPresets) :
                                                         DefaultPresets[i].id = "none"})])
    /\ boot' = [boot EXCEPT !.stage = "getAllPresets"]
    /\ UNCHANGED <<reads, unhandled, orchestrator, now, params, selectedStyleId, allPresets,
                   loads, styleModal, styleOps, rendered, localStorage>>

\* the tail of the effect: setAllPresets, loadGallery(), and setParams of
\* the saved parameters, which the effect of lines 145-147 writes back
BootFinish(currentPresets) ==
    /\ allPresets' = SortPresets(currentPresets)
    /\ loads' = Min(loads + 1, MaxLoads)
    /\ params' = IF localStorage.gp_params = NoItem THEN params
                 ELSE ParseParams(localStorage.gp_params.value)
    /\ localStorage' = [localStorage EXCEPT !.gp_params =
            [value |-> StringifyParams(params')]]
    /\ boot' = [stage |-> "done", currentPresets |-> <<>>, missing |-> <<>>,
                stored |-> <<>>, savedParams |-> NoItem]

\* await getAllPresets() completes: the missing defaults are computed; with
\* none missing the effect finishes in the same continuation
BootListed ==
    /\ boot.stage = "getAllPresets"
    /\ LET currentPresets == GetAllPresets(presetStore)
           missingDefaults == MissingDefaults(currentPresets)
       IN  IF Len(missingDefaults) > 0
           THEN /\ boot' = [boot EXCEPT !.stage = "seed",
                                        !.currentPresets = currentPresets,
                                        !.missing = missingDefaults]
                /\ UNCHANGED <<allPresets, loads, params, localStorage>>
           ELSE BootFinish(currentPresets)
    /\ UNCHANGED <<reads, unhandled, orchestrator, now, selectedStyleId, presetStore, styleModal,
                   styleOps, rendered>>

\* one await savePreset(p) of the seeding loop completes
BootSeeded ==
    /\ boot.stage = "seed"
    /\ presetStore' = SavePreset(presetStore, Head(boot.missing))
    /\ boot' = [boot EXCEPT !.missing = Tail(boot.missing),
                            !.stage = IF Len(boot.missing) = 1 THEN "reload"
                                      ELSE "seed"]
    /\ UNCHANGED <<reads, unhandled, orchestrator, now, params, selectedStyleId, allPresets,
                   loads, styleModal, styleOps, rendered, localStorage>>

\* the reload after the merge completes
BootReloaded ==
    /\ boot.stage = "reload"
    /\ BootFinish(GetAllPresets(presetStore))
    /\ UNCHANGED <<reads, unhandled, orchestrator, now, selectedStyleId, presetStore, styleModal,
                   styleOps, rendered>>

\* the names and descriptions typed into the style form
StyleNames == {"", "Mine"}
StyleDescriptions == {<<>>, <<"M">>}

\* the edit button of a chip is rendered for every preset, variant
EditableAny(p) == TRUE

\* the edit button of a chip is rendered for every preset but the sentinel
Editable(p) == p.id # "none"

OpenCreateStyleModal ==
    /\ styleModal' = [isOpen |-> TRUE, editingStyleId |-> "", name |-> "",
                      description |-> <<>>,
                      images |-> IF Len(referenceImages) > 0 THEN referenceImages
                                 ELSE <<>>]
    /\ UNCHANGED <<reads, unhandled, orchestrator, now, params, selectedStyleId, allPresets,
                   loads, presetStore, boot, styleOps, rendered, localStorage>>

OpenEditStyleModal(i) ==
    /\ i \in 1..Len(allPresets)
    /\ Editable(allPresets[i])
    /\ LET style == allPresets[i]
       IN  styleModal' = [isOpen |-> TRUE, editingStyleId |-> style.id,
                          name |-> style.name, description |-> style.description,
                          images |-> IF style.referenceImages = Undefined THEN <<>>
                                     ELSE style.referenceImages]
    /\ UNCHANGED <<reads, unhandled, orchestrator, now, params, selectedStyleId, allPresets,
                   loads, presetStore, boot, styleOps, rendered, localStorage>>

\* the name input of the form
SetStyleFormName(name) ==
    /\ styleModal.isOpen
    /\ styleModal' = [styleModal EXCEPT !.name = name]
    /\ UNCHANGED <<reads, unhandled, orchestrator, now, params, selectedStyleId, allPresets,
                   loads, presetStore, boot, styleOps, rendered, localStorage>>

\* the description input of the form
SetStyleFormDesc(description) ==
    /\ styleModal.isOpen
    /\ styleModal' = [styleModal EXCEPT !.description = description]
    /\ UNCHANGED <<reads, unhandled, orchestrator, now, params, selectedStyleId, allPresets,
                   loads, presetStore, boot, styleOps, rendered, localStorage>>

\* the dialog's close button
CloseStyleModal ==
    /\ styleModal.isOpen
    /\ styleModal' = [styleModal EXCEPT !.isOpen = FALSE]
    /\ UNCHANGED <<reads, unhandled, orchestrator, now, params, selectedStyleId, allPresets,
                   loads, presetStore, boot, styleOps, rendered, localStorage>>

\* handleSaveStyle up to its first await: the preset is built from the form
\* and savePreset is called (the rest of the handler reads id only)
HandleSaveStyle ==
    /\ styleModal.isOpen
    /\ styleModal.name # "" /\ styleModal.description # <<>>
    /\ Len(styleOps) < MaxStyleOps
    /\ LET id == IF styleModal.editingStyleId # "" THEN styleModal.editingStyleId
                 ELSE "custom-" \o ToString(now)
           preset == [id |-> id, name |-> styleModal.name,
                      description |-> styleModal.description,
                      referenceImages |-> IF Len(styleModal.images) > 0
                                          THEN styleModal.images ELSE Undefined]
       IN  styleOps' = Append(styleOps, [kind |-> "save", id |-> id,
                                         preset |-> preset,
                                         selectedStyleId |-> "",
                                         stage |-> "store"])
    /\ UNCHANGED <<reads, unhandled, orchestrator, now, params, selectedStyleId, allPresets,
                   loads, presetStore, boot, styleModal, rendered, localStorage>>

\* handleDeleteStyle up to its first await; the button is rendered while a
\* preset is being edited
HandleDeleteStyle ==
    /\ styleModal.isOpen
    /\ styleModal.editingStyleId # ""
    /\ Len(styleOps) < MaxStyleOps
    /\ styleOps' = Append(styleOps, [kind |-> "delete",
                                     id |-> styleModal.editingStyleId,
                                     preset |-> NoStyle,
                                     selectedStyleId |-> selectedStyleId,
                                     stage |-> "store"])
    /\ UNCHANGED <<reads, unhandled, orchestrator, now, params, selectedStyleId, allPresets,
                   loads, presetStore, boot, styleModal, rendered, localStorage>>

\* await savePreset(preset) / await deletePreset(editingStyleId) completes
\* and refreshPresets calls getAllPresets
StyleStored(k) ==
    /\ k \in 1..Len(styleOps)
    /\ styleOps[k].stage = "store"
    /\ presetStore' = IF styleOps[k].kind = "save"
                      THEN SavePreset(presetStore, styleOps[k].preset)
                      ELSE DeletePreset(presetStore, styleOps[k].id)
    /\ styleOps' = [styleOps EXCEPT ![k].stage = "refresh"]
    /\ UNCHANGED <<reads, unhandled, orchestrator, now, params, selectedStyleId, allPresets,
                   loads, boot, styleModal, rendered, localStorage>>

\* a style operation that has run to its end
SettledStyleOp ==
    [kind |-> "settled", id |-> "", preset |-> NoStyle, selectedStyleId |-> "",
     stage |-> "done"]

\* the selection a finished handleDeleteStyle leaves: the test of line 319
\* reads the selectedStyleId of the render the handler was created in
SelectionAfterDelete(op, current) ==
    IF op.selectedStyleId = op.id THEN "none" ELSE current

\* await refreshPresets() completes and the handler runs to its end
StyleRefreshed(k) ==
    /\ k \in 1..Len(styleOps)
    /\ styleOps[k].stage = "refresh"
    /\ allPresets' = SortPresets(GetAllPresets(presetStore))
    /\ selectedStyleId' = IF styleOps[k].kind = "save" THEN styleOps[k].id
                          ELSE SelectionAfterDelete(styleOps[k], selectedStyleId)
    /\ styleModal' = [styleModal EXCEPT !.isOpen = FALSE]
    /\ styleOps' = [styleOps EXCEPT ![k] = SettledStyleOp]
    /\ UNCHANGED <<reads, unhandled, orchestrator, now, params, loads, presetStore, boot,
                   rendered, localStorage>>

(* The settings panel: toggleRatio (lines 537-546) and the other controls *)
(* of params (lines 772-830); the effect of lines 145-147 writes every    *)
(* new params value to localStorage                                       *)

\* some of the ratios of portraitRatios and landscapeRatios
Ratios == {"1:1", "16:9", "9:16"}

Resolutions == {"1K", "2K", "4K"}

\* positions of the image count slider
Counts == 1..2

\* setShowConfig (the config buttons)
SetShowConfig(show) ==
    /\ showConfig' = show
    /\ UNCHANGED <<reads, unhandled, registry, rendered, localStorage, now, apiKey,
                   isKeyModalOpen, activeTab, params, prompt, selectedStyleId,
                   referenceImages, allPresets, tasks, gallery, lightboxState,
                   images, calls, favs, dels, loads>>

\* toggleRatio never returns early
RejectsToggleNever(exists, selected) == FALSE

\* if (exists && params.aspectRatios.length === 1) return
RejectsToggle(exists, selected) == exists /\ Len(selected) = 1

\* toggleRatio: a click is rendered before the next click is handled, so the
\* params the handler reads are the ones its updater is applied to
ToggleRatio(ratio) ==
    LET exists == \E i \in 1..Len(params.aspectRatios) : params.aspectRatios[i] = ratio
    IN  /\ ~RejectsToggle(exists, params.aspectRatios)
        /\ params' = [params EXCEPT !.aspectRatios =
                         IF exists THEN SelectSeq(@, LAMBDA r : r # ratio)
                         ELSE Append(@, ratio)]
        /\ localStorage' = [localStorage EXCEPT !.gp_params =
            [value |-> StringifyParams(params')]]
        /\ UNCHANGED <<reads, unhandled, registry, rendered, now, apiKey, isKeyModalOpen,
                       activeTab, showConfig, prompt, selectedStyleId,
                       referenceImages, allPresets, tasks, gallery,
                       lightboxState, images, calls, favs, dels, loads>>

SetResolution(res) ==
    /\ params' = [params EXCEPT !.resolution = res]
    /\ localStorage' = [localStorage EXCEPT !.gp_params =
            [value |-> StringifyParams(params')]]
    /\ UNCHANGED <<reads, unhandled, registry, rendered, now, apiKey, isKeyModalOpen,
                   activeTab, showConfig, prompt, selectedStyleId,
                   referenceImages, allPresets, tasks, gallery,
                   lightboxState, images, calls, favs, dels, loads>>

SetCount(count) ==
    /\ params' = [params EXCEPT !.count = count]
    /\ localStorage' = [localStorage EXCEPT !.gp_params =
            [value |-> StringifyParams(params')]]
    /\ UNCHANGED <<reads, unhandled, registry, rendered, now, apiKey, isKeyModalOpen,
                   activeTab, showConfig, prompt, selectedStyleId,
                   referenceImages, allPresets, tasks, gallery,
                   lightboxState, images, calls, favs, dels, loads>>

\* the number of tasks one submission creates
BatchSize == Len(params.aspectRatios) * params.count

\* Generation: submissions, retries, completions and task deletion; at most
\* MaxCalls tasks are ever dispatched
Next ==
    \/ Tick
    \/ SetPrompt(<<"a">>)
    \/ Len(calls) + BatchSize <= MaxCalls /\ SubmitBatch
    \/ \E g \in 1..Len(GroupTasksByBatch(tasks)) :
           /\ Len(calls) + BatchSize <= MaxCalls
           /\ HandleRegenerateBatch(GroupTasksByBatch(tasks)[g])
    \/ \E k \in 1..Len(calls) : GenerateResolved(k)
    \/ \E k \in 1..Len(calls), m \in Messages : GenerateRejected(k, m)
    \/ \E k \in 1..Len(calls) : SaveResolved(k)
    \/ \E k \in 1..Len(calls), m \in Messages : SaveRejected(k, m)
    \/ \E i \in 1..Len(tasks) : DeleteTask(i)

Spec == Init /\ [][Next]_vars

\* Favourites and lightbox over one batch of one ratio
InitFav ==
    /\ Init
    /\ apiKey = "key"
    /\ Len(params.aspectRatios) = 1

NextFav ==
    \/ SubmitBatch
    \/ \E k \in 1..Len(calls) : GenerateResolved(k)
    \/ \E k \in 1..Len(calls) : SaveResolved(k)
    \/ LoadGallery
    \/ \E tab \in {"create", "gallery", "favorites"} : SetActiveTab(tab)
    \/ \E i \in 1..Len(tasks) : ViewTask(i)
    \/ \E i \in 1..Len(gallery) : ViewGalleryImage(i)
    \/ CloseLightbox
    \/ HandleNextImage
    \/ \E i \in 1..Len(tasks) : ToggleTaskFavorite(i)
    \/ \E i \in 1..Len(gallery) : ToggleGalleryFavorite(i)
    \/ ToggleLightboxFavorite
    \/ \E k \in 1..Len(favs) : FavoriteSaved(k)

SpecFav == InitFav /\ [][NextFav]_vars

\* Prompt and reference resolution: single-task batches, every working
\* prompt, staged reference and style
InitPrompt ==
    /\ Init
    /\ apiKey = "key"
    /\ Len(params.aspectRatios) = 1
    /\ params.count = 1

NextPrompt ==
    \/ \E text \in Prompts : SetPrompt(text)
    \/ \E result \in UserImages : AddReferenceImage(result)
    \/ \E id \in {"none", "neon"} : SetSelectedStyleId(id)
    \/ Len(calls) < MaxRetryCalls /\ SubmitBatch
    \/ \E g \in 1..Len(GroupTasksByBatch(tasks)) :
           /\ Len(calls) < MaxRetryCalls
           /\ HandleRegenerateBatch(GroupTasksByBatch(tasks)[g])
    \/ \E k \in 1..Len(calls) : GenerateResolved(k)
    \/ \E k \in 1..Len(calls) : SaveResolved(k)

SpecPrompt == InitPrompt /\ [][NextPrompt]_vars

\* Submissions from the prompt bar alone, at most MaxSubmits of them: every
\* working prompt, staged reference, style and parameter choice; the calls
\* stay in flight
InitSubmit ==
    /\ Init
    /\ apiKey = "key"

NextSubmit ==
    \/ \E text \in Prompts : SetPrompt(text)
    \/ \E result \in UserImages : AddReferenceImage(result)
    \/ \E id \in {"none", "neon"} : SetSelectedStyleId(id)
    \/ Len(calls) < MaxSubmits * BatchSize /\ SubmitBatch

SpecSubmit == InitSubmit /\ [][NextSubmit]_vars

\* Recording: submissions of single-task batches from the prompt bar, at
\* most MaxRecorded of them, with their completions
NextRecord ==
    \/ \E text \in Prompts : SetPrompt(text)
    \/ \E result \in UserImages : AddReferenceImage(result)
    \/ \E id \in {"none", "neon"} : SetSelectedStyleId(id)
    \/ Len(calls) < MaxRecorded /\ SubmitBatch
    \/ \E k \in 1..Len(calls) : GenerateResolved(k)
    \/ \E k \in 1..Len(calls) : SaveResolved(k)

SpecRecord == InitPrompt /\ [][NextRecord]_vars

\* Credential: single-task batches with or without a key, the key dialog,
\* submissions and retries
InitKey ==
    /\ Init
    /\ Len(params.aspectRatios) = 1
    /\ params.count = 1

NextKey ==
    \/ SetPrompt(<<"a">>)
    \/ \E result \in UserImages : AddReferenceImage(result)
    \/ apiKey # "" /\ OpenKeyModal
    \/ CloseKeyModal
    \/ \E key \in Keys : HandleSaveKey(key)
    \/ HandleClearKey
    \/ Len(calls) < MaxKeyCalls /\ SubmitBatch
    \/ \E g \in 1..Len(GroupTasksByBatch(tasks)) :
           /\ Len(calls) < MaxKeyCalls
           /\ HandleRegenerateBatch(GroupTasksByBatch(tasks)[g])
    \/ \E k \in 1..Len(calls) : GenerateResolved(k)
    \/ \E k \in 1..Len(calls) : SaveResolved(k)

SpecKey == InitKey /\ [][NextKey]_vars

\* Gallery: one batch, the gallery tabs, the lightbox and gallery deletion
NextGallery ==
    \/ Len(calls) = 0 /\ SubmitBatch
    \/ \E k \in 1..Len(calls) : GenerateResolved(k)
    \/ \E k \in 1..Len(calls) : SaveResolved(k)
    \/ LoadGallery
    \/ \E tab \in {"create", "gallery", "favorites"} : SetActiveTab(tab)
    \/ \E i \in 1..Len(tasks) : ViewTask(i)
    \/ \E i \in 1..Len(gallery) : ViewGalleryImage(i)
    \/ CloseLightbox
    \/ HandleNextImage
    \/ \E i \in 1..Len(gallery) : DeleteGalleryImage(i)
    \/ \E k \in 1..Len(dels) : DeleteResolved(k)

SpecGallery == InitFav /\ [][NextGallery]_vars

\* Task deletion: batches of one ratio and their retries, at most
\* MaxDeleteCalls tasks in all, their completions, the gallery reload and the
\* delete button of the task cards
NextDelete ==
    \/ Len(calls) + BatchSize <= MaxDeleteCalls /\ SubmitBatch
    \/ \E g \in 1..Len(GroupTasksByBatch(tasks)) :
           /\ Len(calls) + BatchSize <= MaxDeleteCalls
           /\ HandleRegenerateBatch(GroupTasksByBatch(tasks)[g])
    \/ \E k \in 1..Len(calls) : GenerateResolved(k)
    \/ \E k \in 1..Len(calls), message \in Messages : GenerateRejected(k, message)
    \/ \E k \in 1..Len(calls) : SaveResolved(k)
    \/ LoadGallery
    \/ \E i \in 1..Len(tasks) : DeleteTask(i)

SpecDelete == InitFav /\ [][NextDelete]_vars

----------------------------------------------------------------------------
\* what the preset collection of an earlier session can hold: an outdated
\* sentinel, a default edited by the user, a preset created by the user
OldNone ==
    [id |-> "none", name |-> "Default", description |-> <<"O">>,
     referenceImages |-> Undefined]

EditedNeon ==
    [id |-> "neon", name |-> "Neon", description |-> <<"E">>,
     referenceImages |-> Undefined]

CustomPreset ==
    [id |-> "custom-0", name |-> "Mine", description |-> <<"M">>,
     referenceImages |-> <<"u1">>]

StoredChoices ==
    {<<>>, <<OldNone>>, <<OldNone, EditedNeon>>, <<EditedNeon, CustomPreset>>,
     DefaultPresets}

\* the parameters a previous session can have left in localStorage
SavedParamsChoices ==
    {NoItem,
     [value |-> StringifyParams([aspectRatios |-> <<"1:1", "16:9">>,
                                 resolution |-> "4K", count |-> 2])]}

\* the first render of a session: the initial state of every useState, the
\* Store and localStorage as an earlier session left them
InitRegistry ==
    /\ now = 1
    /\ apiKey = ""
    /\ isKeyModalOpen = FALSE
    /\ activeTab = "create"
    /\ showConfig = FALSE
    /\ params = [aspectRatios |-> <<"16:9">>, resolution |-> "2K", count |-> 1]
    /\ prompt = <<"a">>
    /\ selectedStyleId = "none"
    /\ referenceImages = <<>>
    /\ allPresets = <<>>
    /\ tasks = <<>>
    /\ gallery = <<>>
    /\ lightboxState = [isOpen |-> FALSE, images |-> <<>>, currentIndex |-> 0]
    /\ images = <<>>
    /\ calls = <<>>
    /\ favs = <<>>
    /\ dels = <<>>
    /\ loads = 0
    /\ presetStore \in StoredChoices
    /\ localStorage \in [gp_api_key : {[value |-> "key"]},
                         gp_params : SavedParamsChoices]
    /\ boot = [stage |-> "mount", currentPresets |-> <<>>, missing |-> <<>>,
               stored |-> presetStore, savedParams |-> localStorage.gp_params]
    /\ styleModal = [isOpen |-> FALSE, editingStyleId |-> "", name |-> "",
                     description |-> <<>>, images |-> <<>>]
    /\ styleOps = <<>>
    /\ rendered = [groupedTasks |-> <<>>]
    /\ unhandled = {}
    /\ reads = <<>>

\* the dialog is used once the chips are there; a chip is pressed while the
\* dialog does not cover it
NextRegistry ==
    \/ Mount
    \/ BootOpened
    \/ BootSentinelSaved
    \/ BootListed
    \/ BootSeeded
    \/ BootReloaded
    \/ boot.stage = "done" /\ ~styleModal.isOpen /\ OpenCreateStyleModal
    \/ \E i \in 1..Len(allPresets) :
           boot.stage = "done" /\ ~styleModal.isOpen /\ OpenEditStyleModal(i)
    \/ \E name \in StyleNames : SetStyleFormName(name)
    \/ \E description \in StyleDescriptions : SetStyleFormDesc(description)
    \/ CloseStyleModal
    \/ HandleSaveStyle
    \/ HandleDeleteStyle
    \/ \E k \in 1..Len(styleOps) : StyleStored(k)
    \/ \E k \in 1..Len(styleOps) : StyleRefreshed(k)
    \/ \E i \in 1..Len(allPresets) :
           ~styleModal.isOpen /\ SetSelectedStyleId(allPresets[i].id)

SpecRegistry == InitRegistry /\ [][NextRegistry]_vars

\* the settings panel alone; its controls are rendered while it is shown
NextParams ==
    \/ \E show \in BOOLEAN : SetShowConfig(show)
    \/ \E ratio \in Ratios : showConfig /\ ToggleRatio(ratio)
    \/ \E res \in Resolutions : showConfig /\ SetResolution(res)
    \/ \E count \in Counts : showConfig /\ SetCount(count)

SpecParams == InitFav /\ [][NextParams]_vars

\* the batch ids of the task lists grouped below: absent, or a clock reading
GroupBatchIds == {"", "1", "2"}

\* the n-th task of such a list
GroupTask(n, batchId) ==
    [id |-> "t" \o ToString(n), batchId |-> batchId, status |-> "pending",
     aspectRatio |-> "16:9", prompt |-> <<"a">>, placeholder |-> TRUE,
     data |-> NoData, error |-> NoError, call |-> 0]

\* the task lists of up to MaxGroupLen tasks
TaskLists ==
    UNION {{[i \in 1..n |-> GroupTask(i, f[i])] : f \in [1..n -> GroupBatchIds]} :
              n \in 0..MaxGroupLen}

\* groupTasksByBatch as a function of its argument: any task list, not yet
\* rendered
InitGroup ==
    /\ now = 1
    /\ apiKey = "key"
    /\ isKeyModalOpen = FALSE
    /\ activeTab = "create"
    /\ showConfig = FALSE
    /\ params = [aspectRatios |-> <<"16:9">>, resolution |-> "2K", count |-> 1]
    /\ prompt = <<"a">>
    /\ selectedStyleId = "none"
    /\ referenceImages = <<>>
    /\ allPresets = DefaultPresets
    /\ tasks \in TaskLists
    /\ gallery = <<>>
    /\ lightboxState = [isOpen |-> FALSE, images |-> <<>>, currentIndex |-> 0]
    /\ images = <<>>
    /\ calls = <<>>
    /\ favs = <<>>
    /\ dels = <<>>
    /\ loads = 0
    /\ presetStore = DefaultPresets
    /\ boot = [stage |-> "done", currentPresets |-> <<>>, missing |-> <<>>,
               stored |-> <<>>, savedParams |-> NoItem]
    /\ styleModal = [isOpen |-> FALSE, editingStyleId |-> "", name |-> "",
                     description |-> <<>>, images |-> <<>>]
    /\ styleOps = <<>>
    /\ rendered = [groupedTasks |-> <<>>]
    /\ unhandled = {}
    /\ reads = <<>>
    /\ localStorage = [gp_api_key |-> [value |-> apiKey],
                       gp_params |-> [value |-> StringifyParams(params)]]

NextGroup == Render

SpecGroup == InitGroup /\ [][NextGroup]_vars

\* Discarding tasks in flight: one batch, handleDeleteTask called for a task
\* that is pending or generating, and everything that can follow
NextDiscard ==
    \/ Tick
    \/ Len(calls) = 0 /\ SubmitBatch
    \/ \E i \in 1..Len(tasks) :
           tasks[i].status \in {"pending", "generating"} /\ HandleDeleteTask(tasks[i].id)
    \/ \E k \in 1..Len(calls) : GenerateResolved(k)
    \/ \E k \in 1..Len(calls), message \in Messages : GenerateRejected(k, message)
    \/ \E k \in 1..Len(calls) : SaveResolved(k)
    \/ \E k \in 1..Len(calls), message \in Messages : SaveRejected(k, message)
    \/ LoadGallery

SpecDiscard == InitFav /\ [][NextDiscard]_vars

\* the promise chain of call k takes its next step: the generation call or
\* the store write settles, one way or the other
Settle(k) ==
    \/ GenerateResolved(k)
    \/ \E message \in Messages : GenerateRejected(k, message)
    \/ SaveResolved(k)
    \/ \E message \in Messages : SaveRejected(k, message)

\* batches, retries and task deletion as in NextDelete, every outcome of the
\* store write included
NextSettle ==
    \/ NextDelete
    \/ LoadGalleryRejected
    \/ \E k \in 1..Len(calls), message \in Messages : SaveRejected(k, message)

\* every generation call and every store write eventually settles
SpecSettle ==
    /\ InitFav
    /\ [][NextSettle]_vars
    /\ \A k \in 1..MaxDeleteCalls : WF_vars(k <= Len(calls) /\ Settle(k))


\* one batch, its completions, the gallery reloads of the tab buttons, the
\* deletions of the gallery cards and the hearts of the task cards and of
\* the gallery cards (the lightbox stays closed)
NextCache ==
    \/ Len(calls) = 0 /\ SubmitBatch
    \/ \E k \in 1..Len(calls) : GenerateResolved(k)
    \/ \E k \in 1..Len(calls) : SaveResolved(k)
    \/ LoadGallery
    \/ \E tab \in {"create", "gallery", "favorites"} : SetActiveTab(tab)
    \/ \E i \in 1..Len(gallery) : DeleteGalleryImage(i)
    \/ \E k \in 1..Len(dels) : DeleteResolved(k)
    \/ \E i \in 1..Len(tasks) : ToggleTaskFavorite(i)
    \/ \E i \in 1..Len(gallery) : ToggleGalleryFavorite(i)
    \/ \E k \in 1..Len(favs) : FavoriteSaved(k)

SpecCache == InitFav /\ [][NextCache]_vars


\* one batch, its completions and the hearts of its task cards, which can be
\* clicked again before the write of the last click has completed
NextToggle ==
    \/ Len(calls) = 0 /\ SubmitBatch
    \/ \E k \in 1..Len(calls) : GenerateResolved(k)
    \/ \E k \in 1..Len(calls) : SaveResolved(k)
    \/ LoadGallery
    \/ \E i \in 1..Len(tasks) : ClickTaskHeart(i)
    \/ \E k \in 1..Len(favs) : FavoriteSaved(k)

SpecToggle == InitFav /\ [][NextToggle]_vars


(* The reference staging area: handleFileChange (lines 222-245),           *)
(* removeReferenceImage (247-249), handlePaste (255-274) and handleIterate *)
(* (435-441)                                                               *)

\* the selections of the file picker and the image items of a paste event
ItemLists == UNION {[1..n -> UserImages] : n \in 1..MaxItems}

\* the reads one handler run starts: one FileReader per image; the onloadend
\* of a paste closes over the referenceImages of the handler's render, of
\* which it reads the length
StartedReads(kind, items, seen) ==
    [n \in 1..Len(items) |-> [kind |-> kind, result |-> items[n], seen |-> seen]]

\* handleFileChange(e, false), reached through the upload button, which is
\* disabled once six images are staged (lines 945-954)
HandleFileChange(files) ==
    /\ Len(referenceImages) < MaxReferenceImages
    /\ Len(reads) + Len(files) <= MaxReads
    /\ reads' = reads \o StartedReads("file", files, 0)
    /\ UNCHANGED <<unhandled, registry, rendered, localStorage, dels, now, apiKey,
                   isKeyModalOpen, activeTab, showConfig, params, prompt,
                   selectedStyleId, referenceImages, allPresets, tasks, gallery,
                   lightboxState, images, calls, favs, loads>>

\* handlePaste on the prompt input with the image items of the clipboard
HandlePaste(items) ==
    /\ Len(reads) + Len(items) <= MaxReads
    /\ reads' = reads \o StartedReads("paste", items, Len(referenceImages))
    /\ UNCHANGED <<unhandled, registry, rendered, localStorage, dels, now, apiKey,
                   isKeyModalOpen, activeTab, showConfig, params, prompt,
                   selectedStyleId, referenceImages, allPresets, tasks, gallery,
                   lightboxState, images, calls, favs, loads>>

\* the state update of an onloadend: the file picker tests the length inside
\* the updater (lines 235-238), the paste tests the length its handler saw
\* and appends with the updater (lines 265-267)
StagedAfterRead(prev, read) ==
    IF read.kind = "file"
    THEN IF Len(prev) >= MaxReferenceImages THEN prev ELSE Append(prev, read.result)
    ELSE IF read.seen < MaxReferenceImages THEN Append(prev, read.result) ELSE prev

\* reader.onloadend of one read, in any order
ReadLoaded(k) ==
    /\ referenceImages' = StagedAfterRead(referenceImages, reads[k])
    /\ reads' = RemoveAt(reads, k)
    /\ UNCHANGED <<unhandled, registry, rendered, localStorage, dels, now, apiKey,
                   isKeyModalOpen, activeTab, showConfig, params, prompt,
                   selectedStyleId, allPresets, tasks, gallery, lightboxState,
                   images, calls, favs, loads>>

\* removeReferenceImage(index) of a thumbnail, index counted from 0
RemoveReferenceImage(index) ==
    /\ index \in 0..(Len(referenceImages) - 1)
    /\ referenceImages' = RemoveAt(referenceImages, index + 1)
    /\ UNCHANGED <<reads, unhandled, registry, rendered, localStorage, dels, now,
                   apiKey, isKeyModalOpen, activeTab, showConfig, params, prompt,
                   selectedStyleId, allPresets, tasks, gallery, lightboxState,
                   images, calls, favs, loads>>

\* handleIterate(image): the image becomes the only staged reference
HandleIterate(image) ==
    /\ referenceImages' = <<image.url>>
    /\ prompt' = image.prompt
    /\ activeTab' = "create"
    /\ lightboxState' = [lightboxState EXCEPT !.isOpen = FALSE]
    /\ UNCHANGED <<reads, unhandled, registry, rendered, localStorage, dels, now,
                   apiKey, isKeyModalOpen, showConfig, params, selectedStyleId,
                   allPresets, tasks, gallery, images, calls, favs, loads>>

\* the iterate button of a task card
IterateTask(i) ==
    /\ activeTab = "create"
    /\ ~LightboxShown
    /\ ShowsImage(tasks[i])
    /\ HandleIterate(tasks[i].data)

\* one batch and its completions, file selections, pastes, their reads,
\* removals and iterate
NextStaging ==
    \/ Len(calls) = 0 /\ SubmitBatch
    \/ \E k \in 1..Len(calls) : GenerateResolved(k)
    \/ \E k \in 1..Len(calls) : SaveResolved(k)
    \/ LoadGallery
    \/ \E files \in ItemLists : HandleFileChange(files)
    \/ \E items \in ItemLists : HandlePaste(items)
    \/ \E k \in 1..Len(reads) : ReadLoaded(k)
    \/ \E index \in 0..(Len(referenceImages) - 1) : RemoveReferenceImage(index)
    \/ \E i \in 1..Len(tasks) : IterateTask(i)

SpecStaging == InitFav /\ [][NextStaging]_vars

(* Properties of the orchestrator *)

\* the list entries are told apart by the unit of work created with them
\* (field call), which no handler changes

StatusStep(a, b) ==
    \/ a = b
    \/ a = "pending" /\ b = "generating"
    \/ a = "generating" /\ b \in {"success", "error"}

\* C1: the status of every list entry changes only along
\* pending -> generating -> success | error; nothing leaves success or error
C1_StatusLifecycle ==
    [][\A i \in 1..Len(tasks), j \in 1..Len(tasks') :
          tasks[i].call = tasks'[j].call
              => StatusStep(tasks[i].status, tasks'[j].status)]_vars

IdsDistinct(ts) ==
    \A i, j \in 1..Len(ts) : i # j => ts[i].id # ts[j].id

\* C2: every accepted submission or retry appends |aspectRatios| x count
\* tasks, and the ids of the task list are pairwise distinct
C2_BatchSizeAndUniqueIds ==
    [][/\ Len(calls') > Len(calls)
            => Len(tasks') = Len(tasks) + Len(params.aspectRatios) * params.count
       /\ IdsDistinct(tasks')]_vars

\* the step settles call k in a way that writes the task list
Completes(k) ==
    /\ k \in 1..Len(calls)
    /\ ~Settled(calls[k])
    /\ Settled(calls'[k])

\* C3: the completion of one task changes the list entry of that task only
C3_CompletionIsLocal ==
    [][\A k \in 1..Len(calls) :
          Completes(k) =>
              /\ Len(tasks') = Len(tasks)
              /\ \A i \in 1..Len(tasks) :
                    tasks[i].call # k => tasks'[i] = tasks[i]]_vars

CallsOf(b) == {k \in 1..Len(calls) : calls[k].batchId = b}

TasksOf(b, status) ==
    {i \in 1..Len(tasks) : tasks[i].batchId = b /\ tasks[i].status = status}

\* C4: once every call of a batch has settled (no store rejection, no task
\* of it deleted), the list holds one success per resolved call and one
\* error per rejected call of the batch, and the Store one record per
\* resolved call, under the ids of the successful tasks
C4_BatchOutcome ==
    \A b \in {calls[k].batchId : k \in 1..Len(calls)} :
        LET resolved == {k \in CallsOf(b) : calls[k].stage = "saved"}
            rejected == {k \in CallsOf(b) : calls[k].stage = "generateRejected"}
            records == {r \in 1..Len(images) : images[r].batchId = b}
        IN  (/\ \A k \in CallsOf(b) : k \in resolved \cup rejected
             /\ \A k \in CallsOf(b) : \E i \in 1..Len(tasks) : tasks[i].call = k)
            => /\ Cardinality(TasksOf(b, "success")) = Cardinality(resolved)
               /\ Cardinality(TasksOf(b, "error")) = Cardinality(rejected)
               /\ Cardinality(records) = Cardinality(resolved)
               /\ {images[r].id : r \in records}
                    = {tasks[i].id : i \in TasksOf(b, "success")}

\* C5: a task whose store write was rejected is in status error from then
\* on, and the rejection leaves every other unit of work as it was
C5_StoreRejectionIsLocal ==
    [][/\ \A k \in 1..Len(calls'), i \in 1..Len(tasks') :
            calls'[k].stage = "saveRejected" /\ tasks'[i].call = k
                => tasks'[i].status = "error"
       /\ \A k \in 1..Len(calls) :
            calls[k].stage = "save" /\ calls'[k].stage = "saveRejected"
                => \A j \in 1..Len(calls) : j # k => calls'[j] = calls[j]]_vars

\* C9: a retry leaves every task of the retried group as it was and gives
\* its own tasks a batchId other than the group's
C9_RetryLeavesOriginals ==
    [][\A g \in 1..Len(GroupTasksByBatch(tasks)) :
          LET group == GroupTasksByBatch(tasks)[g]
          IN  HandleRegenerateBatch(group) =>
                /\ \A i \in 1..Len(tasks) :
                      tasks[i].batchId = group[1].batchId => tasks'[i] = tasks[i]
                /\ \A j \in (Len(tasks) + 1)..Len(tasks') :
                      tasks'[j].batchId # group[1].batchId]_vars

\* C6: when a toggleFavorite(img) completes, every task carrying img.id,
\* every gallery entry with that id and every entry of the shown lightbox
\* with that id has the flipped isFavorite value
C6_FavoriteEverywhere ==
    [][\A k \in 1..Len(favs) :
          FavoriteSaved(k) =>
            LET id == favs[k].image.id
                flipped == IF favs[k].image.isFavorite = "true" THEN "false" ELSE "true"
            IN  /\ \A i \in 1..Len(tasks') :
                      tasks'[i].data # NoData /\ tasks'[i].data.id = id
                          => tasks'[i].data.isFavorite = flipped
                /\ \A i \in 1..Len(gallery') :
                      gallery'[i].id = id => gallery'[i].isFavorite = flipped
                /\ lightboxState'.isOpen =>
                      \A i \in 1..Len(lightboxState'.images) :
                          lightboxState'.images[i].id = id
                              => lightboxState'.images[i].isFavorite = flipped]_vars

\* the tasks a step appends, and the calls it issues
NewTaskIndices == (Len(tasks) + 1)..Len(tasks')
NewCallIndices == (Len(calls) + 1)..Len(calls')

\* C7: the prompt a retry delivers and stores is a prompt the retried batch
\* already carries; no style description is put in front of it again
C7_RetryKeepsPrompt ==
    [][\A g \in 1..Len(GroupTasksByBatch(tasks)) :
          LET group == GroupTasksByBatch(tasks)[g]
              resolved == {group[i].prompt : i \in 1..Len(group)}
          IN  HandleRegenerateBatch(group) =>
                /\ \A k \in NewCallIndices : calls'[k].prompt \in resolved
                /\ \A j \in NewTaskIndices : tasks'[j].prompt \in resolved]_vars

\* C8: when the retried group has a task with data, the retry delivers the
\* referenceImages of the first such task's data, with nothing added
C8_RetryKeepsReferences ==
    [][\A g \in 1..Len(GroupTasksByBatch(tasks)) :
          LET group == GroupTasksByBatch(tasks)[g]
              withData == {i \in 1..Len(group) : group[i].data # NoData}
          IN  HandleRegenerateBatch(group) /\ withData # {} =>
                LET first == CHOOSE i \in withData : \A j \in withData : i <= j
                IN  \A k \in NewCallIndices :
                        calls'[k].referenceImages = group[first].data.referenceImages]_vars

\* C10: a non-retry submission with preset P selected and working prompt p
\* stores and delivers P.description + ". " + p, or p when P is the sentinel
C10_StylePrefix ==
    [][\A s \in 1..Len(allPresets) :
          SubmitBatch /\ allPresets[s].id = selectedStyleId =>
            LET expected ==
                    IF allPresets[s].id # "none"
                    THEN allPresets[s].description \o <<".", " ">> \o prompt
                    ELSE prompt
            IN  /\ \A k \in NewCallIndices : calls'[k].prompt = expected
                /\ \A j \in NewTaskIndices : tasks'[j].prompt = expected]_vars

\* a submission under the style preset has dispatched a prefixed prompt, and
\* one under the sentinel the bare prompt
C10_Witness ==
    /\ \E k \in 1..Len(calls) :
          /\ calls[k].retryPrompt = Undefined
          /\ calls[k].styleId = "neon"
          /\ calls[k].prompt = <<"N", ".", " ", "a">>
    /\ \E k \in 1..Len(calls) :
          /\ calls[k].retryPrompt = Undefined
          /\ calls[k].styleId = "none"
          /\ calls[k].prompt = <<"a">>

C12_NoOpIffNothingToDeliver ==
    apiKey # "" =>
        \A s \in 1..Len(allPresets) :
            allPresets[s].id = selectedStyleId =>
                LET resolved ==
                        IF allPresets[s].id # "none"
                        THEN allPresets[s].description \o <<".", " ">> \o prompt
                        ELSE prompt
                IN  (~ ENABLED SubmitBatch)
                        <=> (Trim(resolved) = <<>> /\ Len(referenceImages) = 0)

\* C13: without a credential a submission or a retry only opens the key
\* dialog: no task, no call, no store write, and the task list, the working
\* prompt and the staging area are as before
C13_NoCredentialNoEffect ==
    [][apiKey = "" /\ (\/ SubmitBatch
                       \/ \E g \in 1..Len(GroupTasksByBatch(tasks)) :
                             HandleRegenerateBatch(GroupTasksByBatch(tasks)[g]))
          => /\ isKeyModalOpen'
             /\ UNCHANGED <<apiKey, tasks, calls, images, gallery, favs, dels,
                            loads, prompt, referenceImages, selectedStyleId,
                            activeTab, lightboxState>>]_vars

\* the key was cleared after a batch had been created, and a later submission
\* or retry has opened the key dialog with prompt and staging still in place
C13_Witness ==
    /\ apiKey = ""
    /\ isKeyModalOpen
    /\ tasks # <<>>
    /\ prompt = <<"a">>
    /\ referenceImages = <<"r1">>

\* C14: an accepted submission from the prompt bar leaves the working prompt
\* and the staging area empty and the task list holding every earlier task
\* followed by the new batch; a retry leaves the working prompt and the
\* staging area as they were
C14_ClearOnSubmitOnly ==
    [][/\ SubmitBatch =>
            /\ prompt' = <<>>
            /\ referenceImages' = <<>>
            /\ Len(tasks') = Len(tasks) + Len(params.aspectRatios) * params.count
            /\ \A i \in 1..Len(tasks) : tasks'[i].call = tasks[i].call
            /\ \A j \in NewTaskIndices : tasks'[j].call \in NewCallIndices
       /\ \A g \in 1..Len(GroupTasksByBatch(tasks)) :
            HandleRegenerateBatch(GroupTasksByBatch(tasks)[g]) =>
                /\ prompt' = prompt
                /\ referenceImages' = referenceImages]_vars

\* C15: an accepted submission keeps the existing tasks in place and puts
\* after them, for the r-th ratio of params.aspectRatios and each index i
\* from 0 to count-1, at position (r-1)*count + i + 1 of the batch, the task
\* with id batchId-ratio-i and that aspect ratio
C15_BatchOrder ==
    [][SubmitBatch =>
          /\ Len(tasks') = Len(tasks) + Len(params.aspectRatios) * params.count
          /\ \A n \in 1..Len(tasks) : tasks'[n].id = tasks[n].id
          /\ \A r \in 1..Len(params.aspectRatios), i \in 0..(params.count - 1) :
                LET t == tasks'[Len(tasks) + (r - 1) * params.count + i + 1]
                    ratio == params.aspectRatios[r]
                IN  /\ t.id = ToString(now) \o "-" \o ratio \o "-" \o ToString(i)
                    /\ t.batchId = ToString(now)
                    /\ t.aspectRatio = ratio]_vars

\* two submissions of two ratios with two images each: the second batch
\* follows the first, each in the order 1:1-0, 1:1-1, 16:9-0, 16:9-1
C15_Witness ==
    /\ Len(tasks) = 8
    /\ \A b \in 0..1 :
          /\ tasks[4 * b + 1].id = "1-1:1-0"
          /\ tasks[4 * b + 2].id = "1-1:1-1"
          /\ tasks[4 * b + 3].id = "1-16:9-0"
          /\ tasks[4 * b + 4].id = "1-16:9-1"

\* the units of work whose task has reached success under the id: the task
\* of a call is marked success when the store write of that call completes
SucceededWithId(id) ==
    {k \in 1..Len(calls) : calls[k].task.id = id /\ calls[k].stage = "saved"}

\* C16: every record of the Store has the id of exactly one task that
\* reached success
C16_RecordHasOneTask ==
    \A r \in 1..Len(images) : Cardinality(SucceededWithId(images[r].id)) = 1

\* C17: every task of the list has data exactly when its status is success
\* and an error message exactly when its status is error
C17_DataIffSuccess ==
    \A i \in 1..Len(tasks) :
        /\ tasks[i].data # NoData <=> tasks[i].status = "success"
        /\ tasks[i].error # NoError <=> tasks[i].status = "error"

\* C18: once a gallery deletion has completed and the reload it started has
\* been delivered, the id is in no Store record, no gallery entry, no task's
\* data and no entry of the shown lightbox
C18_DeletedEverywhere ==
    \A k \in 1..Len(dels) :
        dels[k].stage = "done" /\ loads = 0 =>
            /\ \A r \in 1..Len(images) : images[r].id # dels[k].id
            /\ \A g \in 1..Len(gallery) : gallery[g].id # dels[k].id
            /\ \A i \in 1..Len(tasks) :
                  tasks[i].data # NoData => tasks[i].data.id # dels[k].id
            /\ LightboxShown =>
                  \A i \in 1..Len(lightboxState.images) :
                      lightboxState.images[i].id # dels[k].id

\* C19: deleting a task removes the list entries with its id and nothing
\* else: the other entries stay, in their order, and the Store, the gallery
\* cache, the lightbox and the calls in flight are as before
C19_DeleteTaskFrame ==
    [][\A d \in 1..Len(tasks) :
          HandleDeleteTask(tasks[d].id) =>
            LET keep == {j \in 1..Len(tasks) : tasks[j].id # tasks[d].id}
            IN  /\ Len(tasks') = Cardinality(keep)
                /\ \A j \in keep :
                      tasks'[Cardinality({m \in keep : m <= j})] = tasks[j]
                /\ UNCHANGED <<images, gallery, lightboxState, calls, favs,
                               dels, prompt, referenceImages>>]_vars

\* a task that had reached success was deleted while another task stays in
\* the list, and the Store still holds the deleted task's record
C19_Witness ==
    \E k \in 1..Len(calls), r \in 1..Len(images) :
        /\ calls[k].stage = "saved"
        /\ \A i \in 1..Len(tasks) : tasks[i].call # k
        /\ images[r].id = calls[k].task.id
        /\ tasks # <<>>

\* C20: every accepted submission or retry takes a batchId that no earlier
\* one has, and one that is not smaller than any earlier one (a batchId is
\* the decimal text of the clock reading of its submission)
C20_BatchIdsDistinctMonotone ==
    [][Len(calls') > Len(calls) =>
          \A k \in 1..Len(calls) :
              /\ calls[k].batchId # calls'[Len(calls')].batchId
              /\ \A t \in 1..MaxTime :
                    calls[k].batchId = ToString(t) => t <= now]_vars

\* whether a preset list holds a preset with that id
HasPreset(list, id) == \E i \in 1..Len(list) : list[i].id = id

\* C21: once initialization has completed, the sentinel preset "none" is in
\* the Store's preset collection and in the in-memory preset list, whatever
\* save-style, delete-style and refresh operations have run
C21_SentinelPresent ==
    boot.stage = "done" =>
        HasPreset(presetStore, "none") /\ HasPreset(allPresets, "none")

\* C21 witness: after initialization a delete-style operation has run to
\* its end: the default it deleted is gone from the Store and from the
\* refreshed list, the sentinel is in both
C21_Witness ==
    /\ boot.stage = "done"
    /\ Len(styleOps) > 0
    /\ \A k \in 1..Len(styleOps) : styleOps[k] = SettledStyleOp
    /\ ~HasPreset(presetStore, "neon") /\ ~HasPreset(allPresets, "neon")
    /\ HasPreset(presetStore, "none") /\ HasPreset(allPresets, "none")

\* C22: when a delete-style operation completes for the preset that is the
\* selected one, the selection afterwards is the sentinel, also when the
\* selection changed while the operation's store calls were pending
C22_DeleteResetsSelection ==
    [][\A k \in 1..Len(styleOps) :
          (/\ StyleRefreshed(k)
           /\ styleOps[k].kind = "delete"
           /\ selectedStyleId = styleOps[k].id)
          => selectedStyleId' = "none"]_vars

\* C23: initialization seeds exactly the defaults whose ids the Store lacks:
\* when it finishes, every non-sentinel preset it found is stored unchanged,
\* the sentinel equals its definition, every default id is present, and
\* nothing else was added
C23_SeedsExactlyMissing ==
    [][(boot.stage # "done" /\ boot'.stage = "done") =>
          LET before == boot.stored
              after  == presetStore'
              Ids(list) == {list[i].id : i \in 1..Len(list)}
              DefaultIds == Ids(DefaultPresets)
          IN  /\ \A i \in 1..Len(before) :
                    before[i].id # "none" =>
                        \E j \in 1..Len(after) : after[j] = before[i]
              /\ \A j \in 1..Len(after) :
                    after[j].id = "none" => after[j] = NonePreset
              /\ Ids(after) = Ids(before) \cup DefaultIds
              /\ Cardinality(Ids(after)) = Len(after)
              /\ \A j \in 1..Len(after) :
                    after[j].id \notin Ids(before) =>
                        \E d \in 1..Len(DefaultPresets) : after[j] = DefaultPresets[d]
              /\ allPresets' = SortPresets(after)]_vars

\* C23 witness: initialization has just finished on a collection that held
\* an edited default and a user preset but no sentinel
C23_Witness ==
    /\ boot.stage = "done"
    /\ styleModal.editingStyleId = "" /\ ~styleModal.isOpen
    /\ presetStore = <<EditedNeon, CustomPreset, NonePreset>>
    /\ allPresets = <<NonePreset, EditedNeon, CustomPreset>>

Grouped == tasks = <<>> \/ rendered.groupedTasks # <<>>

\* C25: for a task list L and a task t whose batchId occurs in no task of L,
\* groupByBatch(L ++ [t]) is groupByBatch(L) followed by the one group [t]
C25_GroupingStable ==
    Grouped =>
        \A batchId \in GroupBatchIds \cup {"3"} :
            LET t == GroupTask(Len(tasks) + 1, batchId)
            IN  (\A i \in 1..Len(tasks) : BatchKey(tasks[i]) # BatchKey(t)) =>
                    GroupTasksByBatch(Append(tasks, t)) =
                        Append(rendered.groupedTasks, <<t>>)

\* C25 witness: a rendered list of two batches, one of them interrupted by
\* the other, to which a task without batchId is unrelated
C25_Witness ==
    /\ Len(rendered.groupedTasks) = 2
    /\ Len(tasks) >= 3
    /\ tasks[1].batchId = "1" /\ tasks[2].batchId = "2" /\ tasks[3].batchId = "1"

\* position in the task list of the task at place j of group g
PlaceOf(g, j) ==
    First({i \in 1..Len(tasks) : tasks[i] = rendered.groupedTasks[g][j]})

\* C26: groupByBatch(tasks) is a stable partition: every task is in exactly
\* one group, no group is empty, a group's tasks have one batchId (absent
\* counts as "legacy") that no other group has, groups are in the order of
\* the first occurrence of their batchId, tasks inside a group keep their
\* list order, and the task list itself is left as it is
C26_StablePartition ==
    /\ [](Grouped =>
            LET G == rendered.groupedTasks
            IN  /\ \A i \in 1..Len(tasks) :
                      Cardinality({<<g, j>> \in (1..Len(G)) \X (1..Len(tasks)) :
                                      j <= Len(G[g]) /\ G[g][j] = tasks[i]}) = 1
                /\ \A g \in 1..Len(G) :
                      /\ Len(G[g]) >= 1
                      /\ \A j \in 1..Len(G[g]) :
                            /\ PlaceOf(g, j) # 0
                            /\ BatchKey(G[g][j]) = BatchKey(G[g][1])
                            /\ (G[g][j].batchId = "") = (BatchKey(G[g][j]) = "legacy")
                      /\ \A j, k \in 1..Len(G[g]) :
                            j < k => PlaceOf(g, j) < PlaceOf(g, k)
                /\ \A g, h \in 1..Len(G) :
                      g < h => /\ BatchKey(G[g][1]) # BatchKey(G[h][1])
                               /\ PlaceOf(g, 1) < PlaceOf(h, 1))
    /\ [][rendered' # rendered => tasks' = tasks]_vars

\* C26 witness: a rendered list with tasks without batchId between the tasks
\* of a batch, in three groups
C26_Witness ==
    /\ Len(rendered.groupedTasks) = 3
    /\ Len(tasks) = 4
    /\ tasks[1].batchId = "2" /\ tasks[2].batchId = "" /\ tasks[3].batchId = "1"
    /\ tasks[4].batchId = "2"
    /\ Len(rendered.groupedTasks[1]) = 2

C28_CompletionsAllReflected ==
    (\A k \in 1..Len(calls) : Settled(calls[k])) =>
        \A n \in 1..Len(tasks) :
            LET c == calls[tasks[n].call]
            IN  /\ c.stage = "saved" =>
                      tasks[n].status = "success" /\ tasks[n].data = c.generatedData
                /\ c.stage \in {"generateRejected", "saveRejected"} =>
                      tasks[n].status = "error"

\* the list has no task with the id of call k
Discarded(list, k) == \A n \in 1..Len(list) : list[n].id # calls[k].task.id

C30_StoredBeforeSuccess ==
    [][\A n \in 1..Len(tasks) :
          (/\ Len(tasks') = Len(tasks)
           /\ tasks[n].status # "success"
           /\ tasks'[n].status = "success")
          => \E r \in 1..Len(images') :
                 /\ images'[r].id = tasks'[n].id
                 /\ images'[r] = tasks'[n].data]_vars

\* C30 witness: one task is success with its record in the Store while the
\* other, whose image is generated and whose saveImage is pending, is still
\* generating and has no record
C30_Witness ==
    \E m, n \in 1..Len(tasks) :
        /\ tasks[n].status = "success"
        /\ \E r \in 1..Len(images) : images[r] = tasks[n].data
        /\ calls[tasks[m].call].stage = "save"
        /\ tasks[m].status = "generating"
        /\ \A r \in 1..Len(images) : images[r].id # tasks[m].id

\* C31: a submission issues the calls of all its tasks and marks all of them
\* generating in the one step, before any completion; afterwards every call
\* in flight can settle whatever the other calls do
C31_AllIssuedNoneAwaited ==
    /\ [][Len(calls') > Len(calls) =>
             /\ Len(calls') = Len(calls) + BatchSize
             /\ Len(tasks') = Len(tasks) + BatchSize
             /\ \A k \in 1..Len(calls) : calls'[k] = calls[k]
             /\ \A k \in NewCallIndices : calls'[k].stage = "generate"
             /\ \A n \in NewTaskIndices :
                   /\ tasks'[n].status = "generating"
                   /\ tasks'[n].call \in NewCallIndices
                   /\ calls'[tasks'[n].call].task.id = tasks'[n].id]_vars
    /\ [](\A k \in 1..Len(calls) :
             /\ calls[k].stage = "generate" =>
                   ENABLED GenerateResolved(k) /\ ENABLED GenerateRejected(k, "quota")
             /\ calls[k].stage = "save" => ENABLED SaveResolved(k))

\* C31 witness: of the two tasks of one batch the second is success while
\* the call of the first has not settled
C31_Witness ==
    /\ Len(tasks) = 2 /\ Len(calls) = 2
    /\ tasks[1].batchId = tasks[2].batchId
    /\ calls[tasks[1].call].stage = "generate" /\ tasks[1].status = "generating"
    /\ calls[tasks[2].call].stage = "saved" /\ tasks[2].status = "success"

C33_NoUnhandledRejection == unhandled = {}

\* C34: the parameters the previous session last wrote to localStorage are
\* the parameters in effect when startup has completed
C34_ParamsRoundTrip ==
    [][(boot.stage # "done" /\ boot'.stage = "done" /\ boot.savedParams # NoItem)
          => params' = ParseParams(boot.savedParams.value)]_vars

\* the Store holds a record with this id
Stored(store, id) == \E r \in 1..Len(store) : store[r].id = id

\* C35: once deleteImage(id) of handleDeleteGallery has completed, no step
\* writes a record with that id back into the Store
C35_DeletedStaysDeleted ==
    [][\A k \in 1..Len(dels) :
          (dels[k].stage = "done" /\ ~Stored(images, dels[k].id))
              => ~Stored(images', dels[k].id)]_vars

\* no generation call, store write, deletion or gallery read is in flight
StoreQuiet ==
    /\ \A k \in 1..Len(calls) : Settled(calls[k])
    /\ favs = <<>>
    /\ \A k \in 1..Len(dels) : dels[k].stage = "done"
    /\ loads = 0

\* C36: once no store operation is in flight the gallery cache holds exactly
\* the image records of the Store
C36_CacheConverges == StoreQuiet => gallery = GetGallery(images)

\* the list holds this record
Holds(list, rec) == \E r \in 1..Len(list) : list[r] = rec

\* C37: deleting a pending or generating task does not cancel its work: once
\* the call of a task that is no longer listed has resolved and its write
\* has completed, the Store holds its record, and so does the gallery cache
\* once the reload that follows is delivered
C37_DiscardedWorkIsKept ==
    \A k \in 1..Len(calls) :
        (Discarded(tasks, k) /\ calls[k].stage = "saved")
            => /\ Holds(images, calls[k].generatedData)
               /\ loads = 0 => Holds(gallery, calls[k].generatedData)

\* C37 witness: a task was deleted while its call was in flight; the call
\* resolved, the record was written and the reload delivered: the gallery
\* cache shows an image no task refers to
C37_Witness ==
    \E k \in 1..Len(calls) :
        /\ Discarded(tasks, k)
        /\ calls[k].stage = "saved"
        /\ loads = 0
        /\ Holds(gallery, calls[k].generatedData)
        /\ \A n \in 1..Len(tasks) :
               tasks[n].data = NoData \/ tasks[n].data.id # calls[k].task.id

\* the heart is filled: isFavorite is truthy
Truthy(isFavorite) == isFavorite = "true"

\* the record but for its isFavorite field
OtherFields(rec) == [rec EXCEPT !.isFavorite = "undefined"]

\* this step is the completion of the write of toggle k
ToggleCompletes(k) == k \in 1..Len(favs) /\ favs' = RemoveAt(favs, k)

\* C38: toggleFavorite is an involution on the persisted record: the
\* completion of every invocation flips the favourite state of the stored
\* record and leaves its other fields alone, so that two invocations on the
\* same image, the second issued while the write of the first is pending
\* included, restore the original
C38_ToggleIsInvolution ==
    [][\A k \in 1..Len(favs) : \A r \in 1..Len(images), q \in 1..Len(images') :
          (ToggleCompletes(k) /\ images[r].id = favs[k].image.id
                        /\ images'[q].id = favs[k].image.id)
              => /\ Truthy(images'[q].isFavorite) = ~Truthy(images[r].isFavorite)
                 /\ OtherFields(images'[q]) = OtherFields(images[r])]_vars

\* C39: once initialization has completed, the selected style is the id of
\* a preset of the in-memory list
C39_SelectionIsListed ==
    boot.stage = "done" => HasPreset(allPresets, selectedStyleId)

\* C40: the reference staging area never holds more than six images
C40_AtMostSixStaged == Len(referenceImages) <= MaxReferenceImages

====
